---- MODULE Spec2Model ----
(***************************************************************************)
(* Model of cuda::experimental::uninitialized_buffer<_Tp, _Properties...>  *)
(* (cudax/include/cuda/experimental/__container/uninitialized_buffer.h).   *)
(*                                                                         *)
(* The state is a small pool of object storage slots, each either outside  *)
(* the lifetime of a buffer object or holding the three data members       *)
(* (__mr_, __count_, __buf_) of a live one, together with the memory       *)
(* resources the buffers borrow.  Every special member function and swap   *)
(* is one action, written statement by statement in the order of the       *)
(* source.  The calls an operation makes on a resource are recorded in     *)
(* `calls`, the operation itself in `op`.                                  *)
(***************************************************************************)
EXTENDS Integers, Naturals, Sequences, FiniteSets, TLC

\* ---- bounds of the model ------------------------------------------------
NumBufs   == 2   \* object storage slots
MaxCount  == 2   \* largest element count passed to the constructor
NumAddrs  == 2   \* addresses the resources may hand out
AddrStep  == 14  \* distance between those addresses (mixes alignments)
SizeBits  == 8   \* width of size_t in the model (scaled down from 64)
MaxSizeOf   == 6 \* largest sizeof(T) tried on the allocation size calculator
MaxAlignLog == 3 \* largest log2 alignof(T) tried on it

Slots     == 1..NumBufs
\* two memory resources: enough to tell "the same" from "another" resource
Resources == {"mrA", "mrB"}
SizeMod   == 2 ^ SizeBits
\* the caller bounds count so that count * sizeof(T) does not wrap
Counts    == 0..MaxCount
Addrs     == {k * AddrStep : k \in 1..NumAddrs}

\* ---- values -------------------------------------------------------------
NULL     == 0           \* nullptr
NoRes    == "none"      \* no resource: storage outside any object lifetime
BadAlloc == -1          \* outcome of an allocate call that throws

\* the element types _Tp the buffer is instantiated with: sizeof, alignof
\* (the resources hand out addresses that need not be multiples of 4, so the
\* second type stands for a type aligned more strictly than the resource)
Types == { [size |-> 1, align |-> 1],
           [size |-> 4, align |-> 4] }

\* property tags: stateful ones have a value_type (property_with_value)
device_accessible == [tag |-> "device_accessible", stateful |-> FALSE]

host_accessible == [tag |-> "host_accessible", stateful |-> FALSE]

memory_kind == [tag |-> "memory_kind", stateful |-> TRUE]

\* uninitialized_device_buffer<_Tp> = uninitialized_buffer<_Tp, device_accessible>
DeviceBufferProps == <<device_accessible>>

VARIABLES Tp,          \* the template argument _Tp of this instantiation
          bufs,        \* slot -> [live, mr, count, buf]
          movedFrom,   \* slot -> its state is the one a move left behind
          outstanding, \* allocations handed out and not yet returned
          balance,     \* successful allocate calls minus deallocate calls
          op,          \* the operation performed last, with its operands
          calls,       \* the resource calls the last operation issued
          result,      \* the value the last operation returned
          Props        \* the template argument pack _Properties...

vars == <<Tp, bufs, movedFrom, outstanding, balance, op, calls, result, Props>>

\* storage that holds no object
Dead == [live |-> FALSE, mr |-> NoRes, count |-> 0, buf |-> NULL]

\* ---- size_t arithmetic --------------------------------------------------
RECURSIVE BitAnd(_, _)
BitAnd(a, b) ==
  IF a = 0 \/ b = 0 THEN 0
  ELSE (a % 2) * (b % 2) + 2 * BitAnd(a \div 2, b \div 2)

BitNot(a) == (SizeMod - 1) - a

\* __get_allocation_size: (count * sizeof(T) + (align - 1)) & ~(align - 1)
__get_allocation_size_RoundsDown(__count) ==
  LET __alignment == Tp.align
  IN  BitAnd((__count * Tp.size) % SizeMod, BitNot(__alignment - 1))

__get_allocation_size_Slack(__count) ==
  LET __alignment == Tp.align
  IN  BitAnd((((__count * Tp.size) % SizeMod) + (2 * __alignment - 1)) % SizeMod,
             BitNot(__alignment - 1))

__get_allocation_size(__count) ==
  LET __alignment == Tp.align
  IN  BitAnd((((__count * Tp.size) % SizeMod) + (__alignment - 1)) % SizeMod,
             BitNot(__alignment - 1))

\* ---- the memory resource ------------------------------------------------
\* bytes an allocation occupies in the address space (a zero-byte request
\* still gets an address of its own)
Extent(bytes) == IF bytes = 0 THEN 1 ELSE bytes

Overlap(a, n, b, m) == a < b + m /\ b < a + n

\* addresses a resource may return for a request: inside the address space
\* and disjoint from every outstanding allocation
FreeAddrs(bytes) ==
  { a \in Addrs :
      /\ a + Extent(bytes) <= SizeMod
      /\ \A o \in outstanding :
           ~Overlap(a, Extent(bytes), o.ptr, Extent(o.bytes)) }

\* outcomes of mr.allocate(bytes): a fresh address, or an exception
allocate(bytes) == FreeAddrs(bytes) \cup {BadAlloc}

\* mr.deallocate(ptr, bytes): the allocation at ptr is returned
deallocate(out, ptr) == { o \in out : o.ptr # ptr }

\* the record of a call on a resource; ptr is the pointer an allocate call
\* returned (NULL when it threw) or the pointer passed to deallocate
AllocCall(mr, bytes, ret) ==
  [kind |-> "allocate", mr |-> mr,
   ptr |-> IF ret = BadAlloc THEN NULL ELSE ret, bytes |-> bytes]

DeallocCall(mr, ptr, bytes) ==
  [kind |-> "deallocate", mr |-> mr, ptr |-> ptr, bytes |-> bytes]

\* the resources' books after a sequence of calls
RECURSIVE OutstandingAfter(_, _)
OutstandingAfter(out, cs) ==
  IF cs = <<>> THEN out
  ELSE LET c == Head(cs)
           next == IF c.kind = "deallocate" THEN deallocate(out, c.ptr)
                   ELSE IF c.ptr = NULL THEN out
                   ELSE out \cup {[mr |-> c.mr, ptr |-> c.ptr, bytes |-> c.bytes]}
       IN  OutstandingAfter(next, Tail(cs))

RECURSIVE BalanceAfter(_, _)
BalanceAfter(n, cs) ==
  IF cs = <<>> THEN n
  ELSE LET c == Head(cs)
           next == IF c.kind = "deallocate" THEN n - 1
                   ELSE IF c.ptr = NULL THEN n
                   ELSE n + 1
       IN  BalanceAfter(next, Tail(cs))

\* the record of an operation: its name, its operands, the constructor's
\* arguments (mr, count) and the operands' state before it ran
OpRec(name, self, other, mr, count, threw) ==
  [name |-> name, self |-> self, other |-> other, mr |-> mr, count |-> count,
   threw |-> threw, pre |-> bufs[self], opre |-> bufs[other],
   moved |-> movedFrom[self]]

NoOp(name, count) ==
  [name |-> name, self |-> 1, other |-> 1, mr |-> NoRes, count |-> count,
   threw |-> FALSE, pre |-> Dead, opre |-> Dead, moved |-> FALSE]

\* ---- initial state ------------------------------------------------------
Init ==
  /\ Tp \in Types
  /\ bufs = [s \in Slots |-> Dead]
  /\ movedFrom = [s \in Slots |-> FALSE]
  /\ outstanding = {}
  /\ balance = 0
  /\ op = [name |-> "none", self |-> 1, other |-> 1, mr |-> NoRes, count |-> 0,
           threw |-> FALSE, pre |-> Dead, opre |-> Dead, moved |-> FALSE]
  /\ calls = <<>>
  /\ result = NULL
  /\ Props = DeviceBufferProps

\* ---- uninitialized_buffer(resource_ref __mr, size_t __count) ------------
\* __buf_(__count_ == 0 ? nullptr : __mr_.allocate(...)): allocate is called
\* only for a non-zero count
CtorAllocates_Always(__count_) == TRUE

CtorAllocates(__count_) == __count_ # 0

\* What the constructor leaves in the storage, given the outcome ret of the
\* initialiser of __buf_.  The members are initialised in declaration order
\* (__mr_, __count_, __buf_); when allocate throws, the exception leaves the
\* constructor, the object's lifetime never begins and no destructor runs.
Constructed_SwallowsFailure(__mr, __count, ret) ==
  [live |-> TRUE, mr |-> __mr, count |-> __count,
   buf |-> IF ret = BadAlloc THEN NULL ELSE ret]

Constructed(__mr, __count, ret) ==
  LET __mr_    == __mr
      __count_ == __count
  IN  IF ret = BadAlloc THEN Dead
      ELSE [live |-> TRUE, mr |-> __mr_, count |-> __count_, buf |-> ret]

Construct(self, __mr, __count) ==
  /\ ~bufs[self].live
  /\ LET bytes == __get_allocation_size(__count)
     IN  \E ret \in (IF CtorAllocates(__count) THEN allocate(bytes) ELSE {NULL}) :
           /\ bufs' = [bufs EXCEPT ![self] = Constructed(__mr, __count, ret)]
           /\ calls' = IF CtorAllocates(__count)
                       THEN <<AllocCall(__mr, bytes, ret)>> ELSE <<>>
           /\ op' = OpRec("construct", self, self, __mr, __count, ret = BadAlloc)
  /\ outstanding' = OutstandingAfter(outstanding, calls')
  /\ balance' = BalanceAfter(balance, calls')
  /\ movedFrom' = [movedFrom EXCEPT ![self] = FALSE]
  /\ result' = NULL
  /\ UNCHANGED <<Tp, Props>>

\* ---- uninitialized_buffer(uninitialized_buffer&& __other) ---------------
\* the objects after the member initialisers and the constructor body
MoveConstructFields_NoReset(self, __other) ==
  [bufs EXCEPT ![self] =
     [live |-> TRUE, mr |-> bufs[__other].mr,
      count |-> bufs[__other].count, buf |-> bufs[__other].buf]]

MoveConstructFields_KeepCount(self, __other) ==
  LET b1 == [bufs EXCEPT ![self] =
               [live |-> TRUE, mr |-> bufs[__other].mr,
                count |-> bufs[__other].count, buf |-> bufs[__other].buf]]
  IN  [b1 EXCEPT ![__other].buf = NULL]

MoveConstructFields_KeepBuf(self, __other) ==
  LET b1 == [bufs EXCEPT ![self] =
               [live |-> TRUE, mr |-> bufs[__other].mr,
                count |-> bufs[__other].count, buf |-> bufs[__other].buf]]
  IN  [b1 EXCEPT ![__other].count = 0]

MoveConstructFields(self, __other) ==
  LET b1 == [bufs EXCEPT ![self] =
               [live |-> TRUE, mr |-> bufs[__other].mr,
                count |-> bufs[__other].count, buf |-> bufs[__other].buf]]
      b2 == [b1 EXCEPT ![__other].count = 0]
      b3 == [b2 EXCEPT ![__other].buf = NULL]
  IN  b3

MoveConstruct(self, __other) ==
  /\ ~bufs[self].live
  /\ bufs[__other].live
  /\ bufs' = MoveConstructFields(self, __other)
  /\ movedFrom' = [movedFrom EXCEPT ![self] = FALSE, ![__other] = TRUE]
  /\ calls' = <<>>
  /\ op' = OpRec("move_construct", self, __other, NoRes, 0, FALSE)
  /\ result' = NULL
  /\ UNCHANGED <<Tp, Props, outstanding, balance>>

\* ---- operator=(uninitialized_buffer&& __other) --------------------------
\* if (__buf_) __mr_.deallocate(__buf_, __get_allocation_size(__count_));
\* runs first, on the members as they are before any assignment
MoveAssignCalls_NoRelease(self, __other) == <<>>

MoveAssignCalls_NewResource(self, __other) ==
  IF bufs[self].buf # NULL
  THEN <<DeallocCall(bufs[__other].mr, bufs[self].buf,
                     __get_allocation_size(bufs[self].count))>>
  ELSE <<>>

MoveAssignCalls_AfterAdopt(self, __other) ==
  IF bufs[__other].buf # NULL
  THEN <<DeallocCall(bufs[__other].mr, bufs[__other].buf,
                     __get_allocation_size(bufs[__other].count))>>
  ELSE <<>>

MoveAssignCalls_SelfGuard(self, __other) ==
  IF self # __other /\ bufs[self].buf # NULL
  THEN <<DeallocCall(bufs[self].mr, bufs[self].buf,
                     __get_allocation_size(bufs[self].count))>>
  ELSE <<>>

MoveAssignCalls(self, __other) ==
  IF bufs[self].buf # NULL
  THEN <<DeallocCall(bufs[self].mr, bufs[self].buf,
                     __get_allocation_size(bufs[self].count))>>
  ELSE <<>>

\* the five assignments, in order; __other may be *this, the statements
\* then read and write the same object
MoveAssignFields_NoReset(self, __other) ==
  LET b1 == [bufs EXCEPT ![self].mr = bufs[__other].mr]
      b2 == [b1 EXCEPT ![self].count = b1[__other].count]
      b3 == [b2 EXCEPT ![self].buf = b2[__other].buf]
  IN  b3

MoveAssignFields_SelfReturn(self, __other) ==
  IF self = __other THEN bufs
  ELSE LET b1 == [bufs EXCEPT ![self].mr = bufs[__other].mr]
           b2 == [b1 EXCEPT ![self].count = b1[__other].count]
           b3 == [b2 EXCEPT ![self].buf = b2[__other].buf]
           b4 == [b3 EXCEPT ![__other].count = 0]
           b5 == [b4 EXCEPT ![__other].buf = NULL]
       IN  b5

MoveAssignFields_SwapResource(self, __other) ==
  LET b0 == [bufs EXCEPT ![__other].mr = bufs[self].mr]
      b1 == [b0 EXCEPT ![self].mr = bufs[__other].mr]
      b2 == [b1 EXCEPT ![self].count = b1[__other].count]
      b3 == [b2 EXCEPT ![self].buf = b2[__other].buf]
      b4 == [b3 EXCEPT ![__other].count = 0]
      b5 == [b4 EXCEPT ![__other].buf = NULL]
  IN  b5

MoveAssignFields(self, __other) ==
  LET b1 == [bufs EXCEPT ![self].mr = bufs[__other].mr]
      b2 == [b1 EXCEPT ![self].count = b1[__other].count]
      b3 == [b2 EXCEPT ![self].buf = b2[__other].buf]
      b4 == [b3 EXCEPT ![__other].count = 0]
      b5 == [b4 EXCEPT ![__other].buf = NULL]
  IN  b5

MoveAssign(self, __other) ==
  /\ bufs[self].live
  /\ bufs[__other].live
  /\ calls' = MoveAssignCalls(self, __other)
  /\ bufs' = MoveAssignFields(self, __other)
  /\ outstanding' = OutstandingAfter(outstanding, calls')
  /\ balance' = BalanceAfter(balance, calls')
  /\ movedFrom' = [movedFrom EXCEPT ![self] = FALSE, ![__other] = TRUE]
  /\ op' = OpRec("move_assign", self, __other, NoRes, 0, FALSE)
  /\ result' = NULL
  /\ UNCHANGED <<Tp, Props>>

\* ---- ~uninitialized_buffer() --------------------------------------------
DestroyCalls_Unconditional(self) ==
  <<DeallocCall(bufs[self].mr, bufs[self].buf,
                __get_allocation_size(bufs[self].count))>>

DestroyCalls(self) ==
  IF bufs[self].buf # NULL
  THEN <<DeallocCall(bufs[self].mr, bufs[self].buf,
                     __get_allocation_size(bufs[self].count))>>
  ELSE <<>>

Destroy(self) ==
  /\ bufs[self].live
  /\ calls' = DestroyCalls(self)
  /\ outstanding' = OutstandingAfter(outstanding, calls')
  /\ balance' = BalanceAfter(balance, calls')
  /\ bufs' = [bufs EXCEPT ![self] = Dead]
  /\ movedFrom' = [movedFrom EXCEPT ![self] = FALSE]
  /\ op' = OpRec("destroy", self, self, NoRes, 0, FALSE)
  /\ result' = NULL
  /\ UNCHANGED <<Tp, Props>>

\* ---- swap(uninitialized_buffer& __other) --------------------------------
\* three cuda::std::swap calls, each exchanging one member
SwapFields_NoResource(self, __other) ==
  LET m2 == [bufs EXCEPT ![self].count = bufs[__other].count]
      b2 == [m2 EXCEPT ![__other].count = bufs[self].count]
      m3 == [b2 EXCEPT ![self].buf = b2[__other].buf]
      b3 == [m3 EXCEPT ![__other].buf = b2[self].buf]
  IN  b3

SwapFields_NoTemp(self, __other) ==
  LET m1 == [bufs EXCEPT ![self].mr = bufs[__other].mr]
      b1 == [m1 EXCEPT ![__other].mr = m1[self].mr]
      m2 == [b1 EXCEPT ![self].count = b1[__other].count]
      b2 == [m2 EXCEPT ![__other].count = m2[self].count]
      m3 == [b2 EXCEPT ![self].buf = b2[__other].buf]
      b3 == [m3 EXCEPT ![__other].buf = m3[self].buf]
  IN  b3

SwapFields(self, __other) ==
  LET m1 == [bufs EXCEPT ![self].mr = bufs[__other].mr]
      b1 == [m1 EXCEPT ![__other].mr = bufs[self].mr]
      m2 == [b1 EXCEPT ![self].count = b1[__other].count]
      b2 == [m2 EXCEPT ![__other].count = b1[self].count]
      m3 == [b2 EXCEPT ![self].buf = b2[__other].buf]
      b3 == [m3 EXCEPT ![__other].buf = b2[self].buf]
  IN  b3

Swap(self, __other) ==
  /\ bufs[self].live
  /\ bufs[__other].live
  /\ bufs' = SwapFields(self, __other)
  /\ movedFrom' = [movedFrom EXCEPT ![self] = movedFrom[__other],
                                    ![__other] = movedFrom[self]]
  /\ calls' = <<>>
  /\ op' = OpRec("swap", self, __other, NoRes, 0, FALSE)
  /\ result' = NULL
  /\ UNCHANGED <<Tp, Props, outstanding, balance>>

Next ==
  \/ \E s \in Slots, r \in Resources, c \in Counts : Construct(s, r, c)
  \/ \E s \in Slots, o \in Slots : MoveConstruct(s, o)
  \/ \E s \in Slots, o \in Slots : MoveAssign(s, o)
  \/ \E s \in Slots : Destroy(s)
  \/ \E s \in Slots, o \in Slots : Swap(s, o)

Spec == Init /\ [][Next]_vars

\* ---- accessors ----------------------------------------------------------
\* cuda::std::align(alignment, size, ptr, space): the first address at or
\* after ptr that is a multiple of alignment, if size bytes fit into the
\* space that remains from it, else nullptr
align(alignment, sz, ptr, space) ==
  IF sz <= space
  THEN LET p2 == BitAnd((ptr + (alignment - 1)) % SizeMod,
                        (SizeMod - alignment) % SizeMod)
           d  == (p2 + SizeMod - ptr) % SizeMod
       IN  IF d <= space - sz THEN p2 ELSE NULL
  ELSE NULL

\* cuda::std::launder returns the address it is given
launder(p) == p

\* __get_data: launder(reinterpret_cast<_Tp*>(align(alignof(_Tp),
\* __count_ * sizeof(_Tp), __ptr, __space)))
__get_data(self) ==
  LET __alignment == Tp.align
      __space     == __get_allocation_size(bufs[self].count)
      __ptr       == bufs[self].buf
  IN  launder(align(__alignment, (bufs[self].count * Tp.size) % SizeMod,
                    __ptr, __space))

\* _Tp* + n: n elements further
PtrAdd(p, n) == (p + n * Tp.size) % SizeMod

begin(self) == __get_data(self)

end_NoOffset(self) == __get_data(self)

end(self) == PtrAdd(__get_data(self), bufs[self].count)

data(self) == __get_data(self)

size(self) == bufs[self].count

resource(self) == bufs[self].mr

\* an accessor call: const noexcept, reads the members and returns a value
Accessor(name, self, value) ==
  /\ bufs[self].live
  /\ op' = OpRec(name, self, self, NoRes, 0, FALSE)
  /\ result' = value
  /\ calls' = <<>>
  /\ UNCHANGED <<Tp, Props, bufs, movedFrom, outstanding, balance>>

Begin(self) == Accessor("begin", self, begin(self))

End(self) == Accessor("end", self, end(self))

Data(self) == Accessor("data", self, data(self))

Size(self) == Accessor("size", self, size(self))

Resource(self) == Accessor("resource", self, resource(self))

\* ---- get_property(const uninitialized_buffer&, _Property) ----------------
\* property_with_value<_Property>: the property has a value_type
property_with_value(_Property) == _Property.stateful

\* _One_of<_Property, _Properties...>: the same as one type of the pack
_One_of(_Property, pack) == \E i \in DOMAIN pack : pack[i] = _Property

\* whether the friend get_property takes part in overload resolution for
\* _Property, i.e. whether the buffer answers the query for it
get_property_AnyMember(_Property) == _One_of(_Property, Props)

get_property(_Property) ==
  (~property_with_value(_Property)) /\ _One_of(_Property, Props)

PropertyTags == {device_accessible, host_accessible, memory_kind}

\* the query for one property on one buffer object
GetProperty(self, _Property) ==
  /\ bufs[self].live
  /\ op' = OpRec("get_property", self, self, NoRes, 0, FALSE)
  /\ result' = [tag |-> _Property, answer |-> get_property(_Property)]
  /\ calls' = <<>>
  /\ UNCHANGED <<Tp, Props, bufs, movedFrom, outstanding, balance>>

\* the property packs a buffer type is declared with
Packs == { <<>>,
           <<device_accessible>>,
           <<host_accessible>>,
           <<device_accessible, host_accessible>>,
           <<memory_kind>>,
           <<device_accessible, memory_kind>> }

PropInit ==
  /\ Tp = [size |-> 4, align |-> 4]
  /\ bufs = [s \in Slots |-> Dead]
  /\ movedFrom = [s \in Slots |-> FALSE]
  /\ outstanding = {}
  /\ balance = 0
  /\ op = NoOp("none", 0)
  /\ calls = <<>>
  /\ result = NULL
  /\ Props \in Packs

\* buffers of every state are made, queried and destroyed
PropNext ==
  \/ \E s \in Slots, r \in Resources, c \in Counts : Construct(s, r, c)
  \/ \E s \in Slots, o \in Slots : MoveConstruct(s, o)
  \/ \E s \in Slots : Destroy(s)
  \/ \E s \in Slots, P \in PropertyTags : GetProperty(s, P)

PropSpec == PropInit /\ [][PropNext]_vars

\* the buffer's operations together with its accessors
AccessNext ==
  \/ Next
  \/ \E s \in Slots : Begin(s)
  \/ \E s \in Slots : End(s)
  \/ \E s \in Slots : Data(s)
  \/ \E s \in Slots : Size(s)
  \/ \E s \in Slots : Resource(s)

AccessSpec == Init /\ [][AccessNext]_vars

\* ---- vocabulary of the properties ---------------------------------------
\* the (resource, count, raw) triple of a buffer
Triple(b) == <<b.mr, b.count, b.buf>>

IsEmpty(b) == b.count = 0 /\ b.buf = NULL

IsHolding(b) == b.count > 0 /\ b.buf # NULL

Live == {s \in Slots : bufs[s].live}

\* the deallocate call that releases the allocation of buffer value b
Release(b) == DeallocCall(b.mr, b.buf, __get_allocation_size(b.count))

\* the allocation record behind a call
Allocation(c) == [mr |-> c.mr, ptr |-> c.ptr, bytes |-> c.bytes]

\* ---- C1 -----------------------------------------------------------------
\* C1: no double release.  Every step issues at most one resource call, and
\* every deallocate call it issues names a pointer that is outstanding when
\* the step begins (returned by an earlier allocate and not deallocated
\* since) and is no longer outstanding when the step ends.
C1_NoDoubleRelease ==
  [][ /\ Len(calls') <= 1
      /\ \A i \in DOMAIN calls' :
           calls'[i].kind = "deallocate" =>
             /\ \E o \in outstanding : o.ptr = calls'[i].ptr
             /\ \A o \in outstanding' : o.ptr # calls'[i].ptr ]_vars

\* a move assignment released the target's allocation and the target took
\* over the allocation of the source, which stays alive as an empty buffer
C1_Witness ==
  /\ op.name = "move_assign"
  /\ op.self # op.other
  /\ Len(calls) = 1
  /\ calls[1].kind = "deallocate"
  /\ bufs[op.self].buf # NULL
  /\ bufs[op.other].live

\* ---- C2 -----------------------------------------------------------------
\* C2: no leak.  The pointers of the outstanding allocations are exactly the
\* non-null raw pointers of the live buffers, and once no buffer is alive
\* as many deallocate calls as successful allocate calls have been made.
C2_NoLeak ==
  /\ {o.ptr : o \in outstanding}
       = {bufs[s].buf : s \in {t \in Live : bufs[t].buf # NULL}}
  /\ (Live = {} => balance = 0)

\* every buffer is gone again after one of them released an allocation
C2_Witness ==
  /\ Live = {}
  /\ op.name = "destroy"
  /\ Len(calls) = 1
  /\ calls[1].kind = "deallocate"

\* ---- C3 -----------------------------------------------------------------
\* C3: every deallocate call is issued on the resource that returned the
\* pointer and with the byte size of the allocate call that returned it.
C3_DeallocateMatches ==
  [][ \A i \in DOMAIN calls' :
        calls'[i].kind = "deallocate" =>
          Allocation(calls'[i]) \in outstanding ]_vars

\* a move assignment between two holding buffers of different resources and
\* different counts has released the target's allocation
C3_Witness ==
  /\ op.name = "move_assign"
  /\ Len(calls) = 1
  /\ calls[1].kind = "deallocate"
  /\ op.opre.buf # NULL
  /\ op.opre.mr # op.pre.mr
  /\ op.opre.count # op.pre.count

\* ---- C4 -----------------------------------------------------------------
\* C4: for every live buffer, count = 0 if and only if raw = null.
C4_CountZeroIffNull ==
  \A s \in Live : (bufs[s].count = 0) <=> (bufs[s].buf = NULL)

\* a move left an Empty source next to a Holding target
C4_Witness ==
  /\ op.name \in {"move_construct", "move_assign"}
  /\ op.self # op.other
  /\ IsHolding(bufs[op.self])
  /\ IsEmpty(bufs[op.other])
  /\ bufs[op.other].live

\* ---- C5 -----------------------------------------------------------------
\* C5: Construct(resource, count) issues no call for count = 0 and the result
\* has size() = 0; for count > 0 it issues exactly one call, an allocate on
\* the given resource with argument size(count), and the buffer it produces
\* has size() = count.  It never issues a deallocate call.
C5_ConstructAllocatesIffPositive ==
  op.name = "construct" =>
    /\ \A i \in DOMAIN calls : calls[i].kind # "deallocate"
    /\ IF op.count = 0
       THEN /\ calls = <<>>
            /\ bufs[op.self].live
            /\ size(op.self) = 0
       ELSE /\ Len(calls) = 1
            /\ calls[1].kind = "allocate"
            /\ calls[1].mr = op.mr
            /\ calls[1].bytes = __get_allocation_size(op.count)
            /\ (~op.threw =>
                  /\ bufs[op.self].live
                  /\ size(op.self) = op.count
                  /\ resource(op.self) = op.mr
                  /\ bufs[op.self].buf = calls[1].ptr)

\* a buffer of more than one element was constructed
C5_Witness ==
  /\ op.name = "construct"
  /\ op.count > 1
  /\ ~op.threw
  /\ bufs[op.self].live
  /\ Len(calls) = 1

\* ---- C6 -----------------------------------------------------------------
\* C6: move-construct gives the new buffer the source's prior triple, leaves
\* the source Empty and issues no call; destroying a moved-from buffer issues
\* no deallocate call, and destroying a Holding buffer issues the single
\* deallocate of the allocation it holds.
C6_MoveConstruct ==
  /\ op.name = "move_construct" =>
       /\ Triple(bufs[op.self]) = Triple(op.opre)
       /\ bufs[op.self].live
       /\ IsEmpty(bufs[op.other])
       /\ bufs[op.other].live
       /\ movedFrom[op.other]
       /\ calls = <<>>
       /\ (op.opre.buf # NULL =>
             [mr |-> bufs[op.self].mr, ptr |-> bufs[op.self].buf,
              bytes |-> __get_allocation_size(bufs[op.self].count)]
               \in outstanding)
  /\ op.name = "destroy" /\ op.moved => calls = <<>>
  /\ op.name = "destroy" /\ op.pre.buf # NULL =>
       /\ calls = <<Release(op.pre)>>
       /\ \A o \in outstanding : o.ptr # op.pre.buf

\* a Holding buffer was moved into a new one
C6_Witness ==
  /\ op.name = "move_construct"
  /\ op.opre.buf # NULL
  /\ bufs[op.self].buf = op.opre.buf
  /\ bufs[op.self].count > 0

\* ---- C7 -----------------------------------------------------------------
\* C7: move-assign of a distinct buffer a into b issues exactly one call when
\* b is Holding, the deallocate of b's prior allocation with b's prior
\* resource, raw and size, and no call when b is Empty; b ends with a's prior
\* triple and a ends Empty.
C7_MoveAssign ==
  op.name = "move_assign" /\ op.self # op.other =>
    /\ IsHolding(op.pre) => calls = <<Release(op.pre)>>
    /\ IsEmpty(op.pre) => calls = <<>>
    /\ IsHolding(op.pre) \/ IsEmpty(op.pre)
    /\ \A i \in DOMAIN calls : calls[i].kind # "allocate"
    /\ Triple(bufs[op.self]) = Triple(op.opre)
    /\ IsEmpty(bufs[op.other])
    /\ bufs[op.self].live /\ bufs[op.other].live

\* a Holding buffer was move-assigned into another Holding buffer
C7_Witness ==
  /\ op.name = "move_assign"
  /\ op.self # op.other
  /\ IsHolding(op.pre)
  /\ IsHolding(op.opre)
  /\ op.pre.buf # op.opre.buf

\* ---- C8 -----------------------------------------------------------------
\* C8: swap exchanges the three fields of the two buffers and issues no
\* allocate and no deallocate call.
C8_Swap ==
  op.name = "swap" =>
    /\ Triple(bufs[op.self]) = Triple(op.opre)
    /\ Triple(bufs[op.other]) = Triple(op.pre)
    /\ size(op.self) = op.opre.count
    /\ size(op.other) = op.pre.count
    /\ calls = <<>>

\* two buffers that differ in resource, count and raw were swapped
C8_Witness ==
  /\ op.name = "swap"
  /\ op.self # op.other
  /\ op.pre.mr # op.opre.mr
  /\ op.pre.count # op.opre.count
  /\ op.pre.buf # op.opre.buf
  /\ IsHolding(op.pre) /\ IsHolding(op.opre)

\* ---- C9 -----------------------------------------------------------------
\* C9: destroy issues exactly one call, deallocate(raw, size(count)) on the
\* buffer's resource, when the buffer is Holding, and no call when it is
\* Empty, be it constructed with count = 0 or moved from.
C9_Destroy ==
  op.name = "destroy" =>
    /\ ~bufs[op.self].live
    /\ IsHolding(op.pre) => calls = <<Release(op.pre)>>
    /\ IsEmpty(op.pre) => calls = <<>>
    /\ IsHolding(op.pre) \/ IsEmpty(op.pre)
    /\ op.moved => IsEmpty(op.pre)

\* a moved-from buffer was destroyed
C9_Witness ==
  /\ op.name = "destroy"
  /\ op.moved
  /\ IsEmpty(op.pre)
  /\ calls = <<>>

\* ---- C10 ----------------------------------------------------------------
\* C10: an allocate call that fails leaves no buffer object: the failure
\* reaches the caller, the storage stays without an object, the only call of
\* the attempt is the failed allocate, no allocation is recorded for it, and
\* no live buffer has count > 0 without an allocation of its own.
C10_AllocationFailure ==
  /\ (\E i \in DOMAIN calls : calls[i].kind = "allocate" /\ calls[i].ptr = NULL) =>
       /\ op.name = "construct"
       /\ op.threw
       /\ op.count > 0
       /\ ~bufs[op.self].live
       /\ calls = <<AllocCall(op.mr, __get_allocation_size(op.count), NULL)>>
       /\ Cardinality(outstanding) = balance
  /\ op.threw => \E i \in DOMAIN calls : calls[i].kind = "allocate" /\ calls[i].ptr = NULL
  /\ \A s \in Live :
       bufs[s].count > 0 =>
         /\ bufs[s].buf # NULL
         /\ \E o \in outstanding : o.ptr = bufs[s].buf

\* an allocate call failed while another buffer holds an allocation
C10_Witness ==
  /\ op.name = "construct"
  /\ op.threw
  /\ outstanding # {}

\* ---- the allocation size calculator on its own --------------------------
\* every pair of a size and a power-of-two alignment, and every size_t count
SizeTypes == [size : 1..MaxSizeOf, align : {2 ^ k : k \in 0..MaxAlignLog}]

SizeCounts == 0..(SizeMod - 1)

SizeInit ==
  /\ Tp \in SizeTypes
  /\ bufs = [s \in Slots |-> Dead]
  /\ movedFrom = [s \in Slots |-> FALSE]
  /\ outstanding = {}
  /\ balance = 0
  /\ op = NoOp("none", 0)
  /\ calls = <<>>
  /\ result = NULL
  /\ Props = DeviceBufferProps

\* one evaluation of __get_allocation_size(__count)
AllocationSize(__count) ==
  /\ op' = NoOp("__get_allocation_size", __count)
  /\ result' = __get_allocation_size(__count)
  /\ UNCHANGED <<Tp, bufs, movedFrom, outstanding, balance, calls, Props>>

SizeNext == \E c \in SizeCounts : AllocationSize(c)

SizeSpec == SizeInit /\ [][SizeNext]_vars

\* ---- C11 ----------------------------------------------------------------
\* x rounded up to the next multiple of a, in unbounded arithmetic
RoundUp(x, a) == ((x + a - 1) \div a) * a

\* the rounded byte size is representable in size_t
Representable(count) == count * Tp.size + (Tp.align - 1) < SizeMod

\* C11 as stated: for every count and every T, size(count) is a multiple of
\* alignOf(T), at least count * sizeOf(T) and less than alignOf(T) above it,
\* that is count * sizeOf(T) rounded up to the next multiple of alignOf(T).
C11_Original ==
  op.name = "__get_allocation_size" =>
    /\ result % Tp.align = 0
    /\ result >= op.count * Tp.size
    /\ result - op.count * Tp.size < Tp.align
    /\ result = RoundUp(op.count * Tp.size, Tp.align)

\* C11 amended: the same, for every count whose rounded byte size
\* count * sizeOf(T) + alignOf(T) - 1 does not exceed the largest size_t;
\* for every count at all the result is a multiple of alignOf(T).
C11_AllocationSize ==
  op.name = "__get_allocation_size" =>
    /\ result % Tp.align = 0
    /\ result \in 0..(SizeMod - 1)
    /\ Representable(op.count) =>
         /\ result >= op.count * Tp.size
         /\ result - op.count * Tp.size < Tp.align
         /\ result = RoundUp(op.count * Tp.size, Tp.align)

\* a byte size that is no multiple of the alignment was rounded up
C11_Witness ==
  /\ op.name = "__get_allocation_size"
  /\ Representable(op.count)
  /\ (op.count * Tp.size) % Tp.align # 0
  /\ result > op.count * Tp.size

\* ---- C12 ----------------------------------------------------------------
\* addresses of the reserved range of buffer value b that are multiples of
\* alignOf(T)
AlignedInRange(b) ==
  { p \in b.buf..(b.buf + __get_allocation_size(b.count) - 1) :
      p % Tp.align = 0 }

\* C12: for every Holding buffer, whatever address the resource returned,
\* data() is the first address of [raw, raw + size(count)) that is a multiple
\* of alignOf(T), and count * sizeOf(T) bytes of the range remain from it.
C12_AlignedPointer ==
  op.name = "data" /\ IsHolding(op.pre) =>
    /\ AlignedInRange(op.pre) # {}
    /\ result \in AlignedInRange(op.pre)
    /\ \A p \in AlignedInRange(op.pre) : result <= p
    /\ result + op.pre.count * Tp.size
         <= op.pre.buf + __get_allocation_size(op.pre.count)

\* ---- C13 ----------------------------------------------------------------
AccessorNames == {"begin", "end", "data", "size", "resource"}

\* C13: an accessor call issues no resource call and changes neither the
\* buffers nor the resources; begin() = data(), end() = begin() + count,
\* size() = count, and begin()/data() called again on the same buffer with
\* nothing in between return the same address.
C13_AccessorsPure ==
  [][ op'.name \in AccessorNames =>
        /\ calls' = <<>>
        /\ bufs' = bufs
        /\ outstanding' = outstanding
        /\ balance' = balance
        /\ op'.name = "begin" => result' = data(op'.self)
        /\ op'.name = "data" => result' = begin(op'.self)
        /\ op'.name = "end" =>
             result' = PtrAdd(begin(op'.self), bufs[op'.self].count)
        /\ op'.name = "size" => result' = bufs[op'.self].count
        /\ op'.name = "resource" => result' = bufs[op'.self].mr
        /\ ( /\ op'.name \in {"begin", "data"}
             /\ op.name \in {"begin", "data"}
             /\ op'.self = op.self ) => result' = result ]_vars

\* end() was called on a buffer of two elements whose data() is not null
C13_Witness ==
  /\ op.name = "end"
  /\ bufs[op.self].count = 2
  /\ begin(op.self) # NULL
  /\ result = begin(op.self) + 2 * Tp.size

\* ---- C14 ----------------------------------------------------------------
\* C14: no two distinct live buffers hold the same non-null raw pointer (the
\* resources never return a pointer that is still outstanding).
C14_SingleOwner ==
  \A s \in Live : \A t \in Live :
    s # t /\ bufs[s].buf # NULL => bufs[s].buf # bufs[t].buf

\* two Holding buffers are alive after an allocation changed hands
C14_Witness ==
  /\ op.name \in {"swap", "move_assign", "move_construct"}
  /\ \E s \in Live : \E t \in Live :
       s # t /\ IsHolding(bufs[s]) /\ IsHolding(bufs[t])

\* ---- C15 ----------------------------------------------------------------
\* C15: the query for tag P is answered yes if and only if P is stateless and
\* a member of the declared set, whatever the state of the buffer asked.
C15_CapabilityForwarding ==
  op.name = "get_property" =>
    /\ result.answer =
         (result.tag.stateful = FALSE
            /\ result.tag \in {Props[i] : i \in DOMAIN Props})
    /\ bufs[op.self] = op.pre
    /\ calls = <<>>

\* a stateful member of the declared set was queried on a Holding buffer and
\* not forwarded
C15_Witness ==
  /\ op.name = "get_property"
  /\ result.tag = memory_kind
  /\ result.tag \in {Props[i] : i \in DOMAIN Props}
  /\ result.answer = FALSE
  /\ IsHolding(bufs[op.self])

\* ---- C16 ----------------------------------------------------------------
\* C16: after move-assigning a Holding buffer to itself, the deallocate calls
\* of the assignment and of the destruction of the buffer as it now is are at
\* most one in total, and the allocation is no longer outstanding.
C16_SelfMoveAssignNoDoubleRelease ==
  op.name = "move_assign" /\ op.self = op.other /\ IsHolding(op.pre) =>
    /\ Len(calls) + Len(DestroyCalls(op.self)) <= 1
    /\ \A i \in DOMAIN calls : calls[i] = Release(op.pre)
    /\ (calls # <<>> => \A o \in outstanding : o.ptr # op.pre.buf)

\* a Holding buffer was move-assigned to itself
C16_Witness ==
  /\ op.name = "move_assign"
  /\ op.self = op.other
  /\ IsHolding(op.pre)

\* ---- C17 ----------------------------------------------------------------
\* C17: move-assigning a Holding buffer to itself issues exactly one call,
\* the deallocate of its own allocation, and leaves it Empty; move-assigning
\* an Empty buffer to itself issues no call and leaves it Empty.
C17_SelfMoveAssignEmpties ==
  op.name = "move_assign" /\ op.self = op.other =>
    /\ IsHolding(op.pre) \/ IsEmpty(op.pre)
    /\ IsHolding(op.pre) => calls = <<Release(op.pre)>>
    /\ IsEmpty(op.pre) => calls = <<>>
    /\ bufs[op.self].live
    /\ IsEmpty(bufs[op.self])
    /\ size(op.self) = 0
    /\ \A o \in outstanding : o.ptr # op.pre.buf

\* a self move assignment released the allocation and left the buffer Empty
C17_Witness ==
  /\ op.name = "move_assign"
  /\ op.self = op.other
  /\ Len(calls) = 1
  /\ IsEmpty(bufs[op.self])
  /\ op.pre.count = 2

\* ---- C19 ----------------------------------------------------------------
\* C19: after move-construct and move-assign the source's resource() is what
\* it was and the destination's resource() equals it; the deallocate call of
\* move-assign is issued on the destination's previous resource.
C19_MovesKeepSourceResource ==
  op.name \in {"move_construct", "move_assign"} =>
    /\ resource(op.other) = op.opre.mr
    /\ resource(op.self) = op.opre.mr
    /\ \A i \in DOMAIN calls : calls[i].mr = op.pre.mr

\* a buffer of one resource was move-assigned into a Holding buffer of another
C19_Witness ==
  /\ op.name = "move_assign"
  /\ op.self # op.other
  /\ op.pre.mr # op.opre.mr
  /\ Len(calls) = 1
  /\ resource(op.other) # op.pre.mr

\* ---- C20 ----------------------------------------------------------------
\* C20: swap issues no call; swap(a, b) and swap(b, a) have the same result;
\* swap(a, a) changes nothing; and a second swap of the same two buffers
\* restores both triples.
C20_SwapInvolution ==
  [][ op'.name = "swap" =>
        /\ calls' = <<>>
        /\ outstanding' = outstanding
        /\ bufs' = SwapFields(op'.other, op'.self)
        /\ op'.self = op'.other => bufs' = bufs
        /\ ( /\ op.name = "swap"
             /\ {op'.self, op'.other} = {op.self, op.other} ) =>
             /\ bufs'[op.self] = op.pre
             /\ bufs'[op.other] = op.opre ]_vars

\* a Holding buffer was swapped with itself
C20_Witness ==
  /\ op.name = "swap"
  /\ op.self = op.other
  /\ IsHolding(bufs[op.self])
  /\ bufs[op.self] = op.pre

TypeOK ==
  /\ Tp \in Types
  /\ \A s \in Slots :
       /\ bufs[s].live \in BOOLEAN
       /\ bufs[s].mr \in Resources \cup {NoRes}
       /\ bufs[s].count \in Counts
       /\ bufs[s].buf \in Addrs \cup {NULL}
  /\ balance \in 0..NumAddrs

====
